---- MODULE Spec2Model ----
(***************************************************************************)
(* The notebook-side WebSocket client (src/src/client.js): the dispatch    *)
(* loop of ws.onmessage, the eight command handlers, the one-shot          *)
(* completion listeners they register on the notebook's event bus, and     *)
(* the output capture function extractCellOutputContent.                   *)
(*                                                                         *)
(* The handlers call into the Jupyter Notebook 6.x front end.  Its         *)
(* behaviour is modelled at each call site as the front end implements it: *)
(*   - insert_cell_at_index clamps the index into [0, ncells];             *)
(*   - select(index) does nothing when index is not a valid cell index;    *)
(*   - cell.events is the notebook-wide event bus shared by all cells, so  *)
(*     events.one('finished_execute.CodeCell') fires on the next           *)
(*     finished-execute signal of any cell;                                *)
(*   - CodeCell.execute clears the cell's outputs and returns without      *)
(*     starting anything when the source is empty; execute on a            *)
(*     non-code cell never signals finished_execute;                       *)
(*   - any call may throw.                                                 *)
(*                                                                         *)
(* Optional JSON fields are modelled as sequences of length 0 (absent,     *)
(* undefined) or 1 (present).  Output text is a sequence of characters.    *)
(*                                                                         *)
(* The relay server and its request correlation table (the repository's    *)
(* jupyter_ws_server.py and jupyter_mcp_server.py) are not among the       *)
(* sources under src/.  They are modelled from the specification's         *)
(* sections 4.1, 4.2 and 4.4 in a specification of their own, RelaySpec,   *)
(* over the relay's variables; submit is the call of the relay's core,     *)
(* made by the tool-facing adapter.                                        *)
(***************************************************************************)
EXTENDS Integers, Sequences, FiniteSets, TLC

VARIABLES
    wsState,      \* "connecting" | "open" | "closed": the WebSocket ws
    cells,        \* Jupyter.notebook.get_cells(): the document, in order
    selected,     \* cell_id of the selected cell
    dirty,        \* Jupyter.notebook.dirty
    execCount,    \* the kernel's execution counter
    runAllIssued, \* restart_run_all has been issued and not yet carried out
    listeners,    \* one-shot finished_execute listeners, in registration order
    sent,         \* messages passed to ws.send while the socket was open
    sentBy,       \* history: for each message of sent, what produced it
    dropped,      \* history: number of ws.send calls on a socket not open
    cmds,         \* history: the command envelopes received, in order
    nextCell      \* next fresh cell_id

\* the relay server
VARIABLES
    conns,        \* liveness and role of each connection the relay has seen
    registry,     \* the registered host connection: a set of at most one
    table,        \* correlation table: request id -> pending request
    results,      \* for each request id, what submit returned to its caller
    forwarded,    \* command envelopes forwarded, with the connection used
    received,     \* history: response envelopes the relay received
    now,          \* the relay's clock
    submitted     \* number of submit calls made; request ids are 1..submitted

clientVars == << wsState, cells, selected, dirty, execCount, runAllIssued,
                 listeners, sent, sentBy, dropped, cmds, nextCell >>

relayVars == << conns, registry, table, results, forwarded, received, now,
                submitted >>

vars == << clientVars, relayVars >>

doc == << cells, selected, dirty, execCount >>

-----------------------------------------------------------------------------
(* Bounds of the model                                                     *)

MaxCmds == 2      \* command envelopes received on the connection
MaxIndex == 3     \* index and position inputs range over -1 .. MaxIndex
MaxM == 2         \* explicit max_length inputs range over 0 .. MaxM
MaxConns == 3     \* connections the relay accepts
MaxSubmits == 2   \* submit calls
MaxResponses == 3 \* response envelopes the relay receives
MaxTime == 3      \* the relay's clock runs over 0 .. MaxTime

-----------------------------------------------------------------------------
(* Program constants                                                       *)

DefaultMaxLength == 1500
DefaultPosition == 1
DefaultIndex == 0

ImageFormats == << "image/png", "image/jpeg", "image/svg+xml" >>

CommandKinds ==
    { "insert_and_execute_cell", "save_notebook", "get_cells_info",
      "get_notebook_info", "run_cell", "run_all_cells",
      "get_cell_text_output", "get_cell_image_output" }

-----------------------------------------------------------------------------
(* JavaScript values                                                       *)

Absent == << >>
Some(v) == << v >>

\* v || d for an optional number: undefined and 0 are falsy
OrNum(v, d) == IF v = Absent THEN d ELSE IF v[1] = 0 THEN d ELSE v[1]

\* v || d for an optional string: undefined and "" are falsy
OrStr(v, d) == IF v = Absent THEN d ELSE IF v[1] = "" THEN d ELSE v[1]

\* obj[name]: undefined when the object has no such property
Prop(obj, name) == IF name \in DOMAIN obj THEN Some(obj[name]) ELSE Absent

\* a property whose value is a string or a string map entry; "" when missing
Get(obj, name) == IF name \in DOMAIN obj THEN obj[name] ELSE << >>

\* JSON.stringify leaves out the properties whose value is undefined
Field(name, opt) == IF opt = Absent THEN << >> ELSE name :> opt[1]

Rep(c, n) == [i \in 1..n |-> c]

Min(a, b) == IF a < b THEN a ELSE b
Max(a, b) == IF a > b THEN a ELSE b

\* String.prototype.substring(0, n) for n >= 0
Substring0(s, n) == SubSeq(s, 1, Min(n, Len(s)))

-----------------------------------------------------------------------------
(* Output capture: extractCellOutputContent                                *)

\* the text one output fragment contributes: its text field if it has one,
\* otherwise its text/plain representation if it has one
FragmentText(output) ==
    IF Get(output, "text") # << >>
    THEN output.text
    ELSE IF "data" \in DOMAIN output /\ Get(output.data, "text/plain") # << >>
         THEN output.data["text/plain"]
         ELSE << >>

RECURSIVE FormatImages(_, _)
FormatImages(data, k) ==
    IF k > Len(ImageFormats) THEN << >>
    ELSE (IF Get(data, ImageFormats[k]) # << >>
          THEN << [format |-> ImageFormats[k], data |-> data[ImageFormats[k]]] >>
          ELSE << >>) \o FormatImages(data, k + 1)

\* FragmentImages taking images only from fragments that gave no text
FragmentImagesUnlessText(output) ==
    IF "data" \in DOMAIN output /\ Get(output, "text") = << >>
    THEN FormatImages(output.data, 1)
    ELSE << >>

\* the image records one output fragment contributes, in format order
FragmentImages(output) ==
    IF "data" \in DOMAIN output THEN FormatImages(output.data, 1) ELSE << >>

RECURSIVE ForEachText(_)
ForEachText(outputs) ==
    IF outputs = << >> THEN << >>
    ELSE FragmentText(Head(outputs)) \o ForEachText(Tail(outputs))

RECURSIVE ForEachImages(_)
ForEachImages(outputs) ==
    IF outputs = << >> THEN << >>
    ELSE FragmentImages(Head(outputs)) \o ForEachImages(Tail(outputs))

\* if (maxTextLength && result.text.length > maxTextLength)
MustTruncate(text, maxTextLength) ==
    /\ maxTextLength # Absent
    /\ maxTextLength[1] # 0
    /\ Len(text) > maxTextLength[1]

extractCellOutputContent(cell, maxTextLength) ==
    IF cell.cell_type = "code"
    THEN LET text == ForEachText(cell.outputs)
             images == ForEachImages(cell.outputs)
         IN  IF MustTruncate(text, maxTextLength)
             THEN [text |-> Substring0(text, maxTextLength[1]),
                   is_text_truncated |-> TRUE,
                   images |-> images]
             ELSE [text |-> text, is_text_truncated |-> FALSE, images |-> images]
    ELSE [text |-> << >>, is_text_truncated |-> FALSE, images |-> << >>]

-----------------------------------------------------------------------------
(* The notebook front end                                                  *)

NCells == Len(cells)

\* Notebook.is_valid_cell_index
IsValidCellIndex(index) == index >= 0 /\ index < NCells

\* index of the cell with the given cell_id (-1 when there is none)
IndexOf(cs, id) ==
    IF \E i \in 1..Len(cs) : cs[i].cell_id = id
    THEN (CHOOSE i \in 1..Len(cs) : cs[i].cell_id = id) - 1
    ELSE -1

CellById(cs, id) == cs[IndexOf(cs, id) + 1]

NewCell(id, type) ==
    [cell_id |-> id, cell_type |-> type, source |-> "", outputs |-> << >>,
     running |-> FALSE, prompt |-> "null"]

\* Notebook.insert_cell_at_index clamps the index into [0, ncells]
ClampIndex(index, n) == Max(Min(index, n), 0)

InsertAt(cs, k, c) == SubSeq(cs, 1, k) \o << c >> \o SubSeq(cs, k + 1, Len(cs))

\* cell.set_text(content)
SetText(cs, id, content) ==
    [i \in 1..Len(cs) |->
        IF cs[i].cell_id = id THEN [cs[i] EXCEPT !.source = content] ELSE cs[i]]

\* cell.execute(): a code cell clears its outputs and, unless its source is
\* empty, starts executing; any other cell only renders
Execute(cs, id) ==
    [i \in 1..Len(cs) |->
        IF cs[i].cell_id = id /\ cs[i].cell_type = "code"
        THEN IF cs[i].source = ""
             THEN [cs[i] EXCEPT !.outputs = << >>, !.prompt = "null"]
             ELSE [cs[i] EXCEPT !.outputs = << >>, !.prompt = "*",
                                !.running = TRUE]
        ELSE cs[i]]

\* the kernel reports the execution of a cell finished, with its outputs
Finish(cs, id, outs, n) ==
    [i \in 1..Len(cs) |->
        IF cs[i].cell_id = id
        THEN [cs[i] EXCEPT !.outputs = outs, !.running = FALSE,
                           !.prompt = ToString(n)]
        ELSE cs[i]]

\* the outputs an execution can leave in a cell
ExecuteResult2 == [output_type |-> "execute_result",
                   data |-> ("text/plain" :> << "2" >>)]
StreamAB == [output_type |-> "stream", text |-> << "a", "b" >>,
             data |-> ("text/plain" :> << "z", "z" >> @@ "image/jpeg" :> << "J" >>)]
DisplayC == [output_type |-> "display_data",
             data |-> ("text/plain" :> << "c" >> @@ "image/png" :> << "P" >>
                       @@ "image/svg+xml" :> << "S" >>)]
StreamLong == [output_type |-> "stream", text |-> Rep("a", DefaultMaxLength)]
StreamB == [output_type |-> "stream", text |-> << "b" >>]

OutputChoices ==
    { << >>,
      << ExecuteResult2 >>,
      << StreamAB, DisplayC >>,
      << StreamLong, StreamB >> }

-----------------------------------------------------------------------------
(* Envelopes                                                               *)

OptIndex == { Absent } \cup { Some(i) : i \in -1..MaxIndex }
OptCellType == { Absent, Some("code"), Some("markdown"), Some("raw") }
OptContent == { Absent, Some("1+1") }
OptMaxLength == { Absent } \cup { Some(m) : m \in 0..MaxM }

\* the command envelopes the relay can deliver with a given request_id
Envelopes(rid) ==
    [type : { "insert_and_execute_cell" }, request_id : { rid },
     position : OptIndex, cell_type : OptCellType, content : OptContent]
    \cup [type : { "save_notebook", "get_cells_info", "get_notebook_info",
                   "run_all_cells", "unknown_command" },
          request_id : { rid }]
    \cup [type : { "run_cell", "get_cell_image_output" }, request_id : { rid },
          index : OptIndex]
    \cup [type : { "get_cell_text_output" }, request_id : { rid },
          index : OptIndex, max_length : OptMaxLength]

\* ResultType with the result kind of run_cell pasted into run_all_cells
ResultTypePasted(kind) ==
    CASE kind = "insert_and_execute_cell" -> "insert_cell_result"
      [] kind = "save_notebook" -> "save_result"
      [] kind = "get_cells_info" -> "cells_info_result"
      [] kind = "get_notebook_info" -> "notebook_info_result"
      [] kind = "run_cell" -> "run_cell_result"
      [] kind = "run_all_cells" -> "run_cell_result"
      [] kind = "get_cell_text_output" -> "get_cell_text_output_result"
      [] kind = "get_cell_image_output" -> "get_cell_image_output_result"

\* the result kind each handler writes into its responses
ResultType(kind) ==
    CASE kind = "insert_and_execute_cell" -> "insert_cell_result"
      [] kind = "save_notebook" -> "save_result"
      [] kind = "get_cells_info" -> "cells_info_result"
      [] kind = "get_notebook_info" -> "notebook_info_result"
      [] kind = "run_cell" -> "run_cell_result"
      [] kind = "run_all_cells" -> "run_all_cells_result"
      [] kind = "get_cell_text_output" -> "get_cell_text_output_result"
      [] kind = "get_cell_image_output" -> "get_cell_image_output_result"

\* ErrorResponse without the message of the failure
ErrorResponseNoMessage(kind, request_id, message) ==
    [type |-> ResultType(kind), request_id |-> request_id, status |-> "error"]

\* the errorResponse object of a handler's catch block
ErrorResponse(kind, request_id, message) ==
    [type |-> ResultType(kind), request_id |-> request_id,
     status |-> "error", message |-> message]

ActionFailed == "Error: action failed"
OutOfRange == "Error: Cell index out of range"
UndefinedCell == "TypeError: cell is undefined"

\* handleInsertCell's sendResult closure, run on the cell as it is now
InsertSendResult(request_id, cell, position) ==
    LET outputResult == extractCellOutputContent(cell, Some(DefaultMaxLength))
    IN  [type |-> ResultType("insert_and_execute_cell"),
         request_id |-> request_id,
         status |-> "success",
         cell_id |-> cell.cell_id,
         position |-> position,
         output_text |-> outputResult.text,
         has_images |-> Len(outputResult.images) > 0]
        @@ Field("is_truncated", Prop(outputResult, "is_truncated"))

\* handleRunCell's sendResult closure, run on the cell as it is now
RunSendResult(request_id, cell, index) ==
    LET outputs == extractCellOutputContent(cell, Some(DefaultMaxLength))
    IN  [type |-> ResultType("run_cell"),
         request_id |-> request_id,
         status |-> "success",
         cell_id |-> cell.cell_id,
         index |-> index,
         output_text |-> outputs.text,
         has_images |-> Len(outputs.images) > 0]
        @@ Field("is_truncated", Prop(outputs, "is_text_truncated"))

\* a registered one-shot listener calls the sendResult of its handler
ListenerResult(l, cs) ==
    IF l.kind = "insert_and_execute_cell"
    THEN InsertSendResult(l.request_id, CellById(cs, l.cell), l.position)
    ELSE RunSendResult(l.request_id, CellById(cs, l.cell), l.position)

\* ws.send of a sequence of messages: nothing goes out on a socket not open
Send(msgs, bys) ==
    IF wsState = "open"
    THEN /\ sent' = sent \o msgs
         /\ sentBy' = sentBy \o bys
         /\ dropped' = dropped
    ELSE /\ sent' = sent
         /\ sentBy' = sentBy
         /\ dropped' = dropped + Len(msgs)

\* history record of a message a handler sent in its own step
Direct(kind, cellId) ==
    [kind |-> kind, via |-> "handler", cell |-> cellId, finished |-> 0]

\* history record of a received command
Received(data, cellId, realized) ==
    [data |-> data, ncells |-> NCells, cell |-> cellId, realized |-> realized,
     threw |-> FALSE]

\* history record of a received command whose notebook action threw
Threw(data, cellId, realized) ==
    [Received(data, cellId, realized) EXCEPT !.threw = TRUE]

-----------------------------------------------------------------------------
(* State machine                                                           *)

\* the relay before any connection is accepted
RelayIdle ==
    /\ conns = [c \in 1..MaxConns |-> "none"]
    /\ registry = { }
    /\ table = << >>
    /\ results = [r \in 1..MaxSubmits |-> << >>]
    /\ forwarded = << >>
    /\ received = << >>
    /\ now = 0
    /\ submitted = 0

\* the outputs of the first cell when the client script is loaded
InitOutputs == { << >>, << StreamAB, DisplayC >> }

InitCells(outs) ==
    << [cell_id |-> 1, cell_type |-> "code", source |-> "run()", outputs |-> outs,
        running |-> FALSE, prompt |-> "1"],
       [cell_id |-> 2, cell_type |-> "markdown", source |-> "# notes",
        outputs |-> << >>, running |-> FALSE, prompt |-> "null"] >>

Init ==
    /\ wsState = "connecting"
    /\ \E outs \in InitOutputs : cells = InitCells(outs)
    /\ selected \in { 1, 2 }
    /\ dirty = FALSE
    /\ execCount = 1
    /\ runAllIssued = FALSE
    /\ listeners = << >>
    /\ sent = << >>
    /\ sentBy = << >>
    /\ dropped = 0
    /\ cmds = << >>
    /\ nextCell = 3
    /\ RelayIdle

\* OnOpen without the role declaration
OnOpenSilent ==
    /\ wsState = "connecting"
    /\ wsState' = "open"
    /\ UNCHANGED << cells, selected, dirty, execCount, runAllIssued,
                    listeners, sent, sentBy, dropped, cmds, nextCell >>
    /\ UNCHANGED relayVars

\* ws.onopen
OnOpen ==
    /\ wsState = "connecting"
    /\ wsState' = "open"
    /\ sent' = Append(sent, [role |-> "notebook"])
    /\ sentBy' = Append(sentBy, [kind |-> "role", via |-> "onopen",
                                 cell |-> 0, finished |-> 0])
    /\ UNCHANGED << cells, selected, dirty, execCount, runAllIssued,
                    listeners, dropped, cmds, nextCell >>
    /\ UNCHANGED relayVars

\* handleInsertCell waiting for a finished signal whatever the cell type
handleInsertCellAlwaysWaits(data) ==
    LET request_id == data.request_id
        position == OrNum(data.position, DefaultPosition)
        cell_type == OrStr(data.cell_type, "code")
        content == OrStr(data.content, "")
        kind == "insert_and_execute_cell"
        at == ClampIndex(position, NCells)
        inserted == SetText(InsertAt(cells, at, NewCell(nextCell, cell_type)),
                            nextCell, content)
        failed == Send(<< ErrorResponse(kind, request_id, ActionFailed) >>,
                       << Direct(kind, nextCell) >>)
    IN  \E fail \in { "none", "insert_cell_at_index", "execute" } :
          IF fail = "insert_cell_at_index"
          THEN /\ failed
               /\ cmds' = Append(cmds, Threw(data, 0, -1))
               /\ UNCHANGED << wsState, cells, selected, dirty, execCount,
                               runAllIssued, listeners, nextCell >>
          ELSE /\ fail = "execute" => cell_type \in { "code", "markdown" }
               /\ cmds' = Append(cmds, IF fail = "execute"
                                        THEN Threw(data, nextCell, at)
                                        ELSE Received(data, nextCell, at))
               /\ nextCell' = nextCell + 1
               /\ dirty' = TRUE
               /\ cells' = IF fail = "none"
                           THEN Execute(inserted, nextCell)
                           ELSE inserted
               /\ listeners' = Append(listeners,
                                      [request_id |-> request_id,
                                       kind |-> kind, cell |-> nextCell,
                                       position |-> position])
               /\ IF fail = "execute"
                  THEN failed
                  ELSE UNCHANGED << sent, sentBy, dropped >>
               /\ UNCHANGED << wsState, selected, execCount, runAllIssued >>

\* ws.onclose
OnClose ==
    /\ wsState \in { "connecting", "open" }
    /\ wsState' = "closed"
    /\ UNCHANGED << cells, selected, dirty, execCount, runAllIssued,
                    listeners, sent, sentBy, dropped, cmds, nextCell >>
    /\ UNCHANGED relayVars

handleInsertCell(data) ==
    LET request_id == data.request_id
        position == OrNum(data.position, DefaultPosition)
        cell_type == OrStr(data.cell_type, "code")
        content == OrStr(data.content, "")
        kind == "insert_and_execute_cell"
        at == ClampIndex(position, NCells)
        inserted == SetText(InsertAt(cells, at, NewCell(nextCell, cell_type)),
                            nextCell, content)
        failed == Send(<< ErrorResponse(kind, request_id, ActionFailed) >>,
                       << Direct(kind, nextCell) >>)
    IN  \E fail \in { "none", "insert_cell_at_index", "execute" } :
          IF fail = "insert_cell_at_index"
          THEN /\ failed
               /\ cmds' = Append(cmds, Threw(data, 0, -1))
               /\ UNCHANGED << wsState, cells, selected, dirty, execCount,
                               runAllIssued, listeners, nextCell >>
          ELSE /\ fail = "execute" => cell_type \in { "code", "markdown" }
               /\ cmds' = Append(cmds, IF fail = "execute"
                                        THEN Threw(data, nextCell, at)
                                        ELSE Received(data, nextCell, at))
               /\ nextCell' = nextCell + 1
               /\ dirty' = TRUE
               /\ cells' = IF cell_type = "code" /\ fail = "none"
                           THEN Execute(inserted, nextCell)
                           ELSE inserted
               /\ listeners' = IF cell_type = "code"
                               THEN Append(listeners,
                                           [request_id |-> request_id,
                                            kind |-> kind, cell |-> nextCell,
                                            position |-> position])
                               ELSE listeners
               /\ IF fail = "execute"
                  THEN failed
                  ELSE IF cell_type = "code"
                       THEN UNCHANGED << sent, sentBy, dropped >>
                       ELSE Send(<< InsertSendResult(request_id,
                                        CellById(inserted, nextCell), position) >>,
                                 << Direct(kind, nextCell) >>)
               /\ UNCHANGED << wsState, selected, execCount, runAllIssued >>

handleSaveNotebook(data) ==
    LET kind == "save_notebook" IN
    /\ \E fail \in BOOLEAN :
         IF fail
         THEN /\ Send(<< ErrorResponse(kind, data.request_id, ActionFailed) >>,
                      << Direct(kind, 0) >>)
              /\ dirty' = dirty
              /\ cmds' = Append(cmds, Threw(data, 0, -1))
         ELSE /\ Send(<< [type |-> ResultType(kind),
                          request_id |-> data.request_id,
                          status |-> "success",
                          notebook_path |-> "nb.ipynb"] >>,
                      << Direct(kind, 0) >>)
              /\ dirty' = FALSE
              /\ cmds' = Append(cmds, Received(data, 0, -1))
    /\ UNCHANGED << wsState, cells, selected, execCount, runAllIssued,
                    listeners, nextCell >>

\* CellsInfo numbering the positions from 1
CellsInfoOneBased(cs) ==
    [i \in 1..Len(cs) |->
        [id |-> cs[i].cell_id, position |-> i, content |-> cs[i].source,
         type |-> cs[i].cell_type, prompt_number |-> cs[i].prompt]]

\* cells.map(function(cell, index) {...}) of handleGetCellsInfo
CellsInfo(cs) ==
    [i \in 1..Len(cs) |->
        [id |-> cs[i].cell_id, position |-> i - 1, content |-> cs[i].source,
         type |-> cs[i].cell_type, prompt_number |-> cs[i].prompt]]

handleGetCellsInfo(data) ==
    LET kind == "get_cells_info" IN
    /\ \E fail \in BOOLEAN :
         IF fail
         THEN /\ Send(<< ErrorResponse(kind, data.request_id, ActionFailed) >>,
                      << Direct(kind, 0) >>)
              /\ cmds' = Append(cmds, Threw(data, 0, -1))
         ELSE /\ cmds' = Append(cmds, Received(data, 0, -1))
              /\ Send(<< [type |-> ResultType(kind),
                       request_id |-> data.request_id,
                       status |-> "success",
                       cells |-> CellsInfo(cells)] >>,
                   << Direct(kind, 0) >>)
    /\ UNCHANGED << wsState, cells, selected, dirty, execCount, runAllIssued,
                    listeners, nextCell >>

handleGetNotebookInfo(data) ==
    LET kind == "get_notebook_info" IN
    /\ \E fail \in BOOLEAN :
         IF fail
         THEN /\ Send(<< ErrorResponse(kind, data.request_id, ActionFailed) >>,
                      << Direct(kind, 0) >>)
              /\ cmds' = Append(cmds, Threw(data, 0, -1))
         ELSE /\ cmds' = Append(cmds, Received(data, 0, -1))
              /\ Send(<< [type |-> ResultType(kind),
                       request_id |-> data.request_id,
                       status |-> "success",
                       notebook_info |->
                           [notebook_name |-> "nb.ipynb",
                            notebook_path |-> "nb.ipynb",
                            kernel_name |-> "python3",
                            cell_count |-> NCells,
                            modified |-> dirty,
                            trusted |-> TRUE]] >>,
                   << Direct(kind, 0) >>)
    /\ UNCHANGED << wsState, cells, selected, dirty, execCount, runAllIssued,
                    listeners, nextCell >>

\* Jupyter.notebook.select(index); Jupyter.notebook.get_selected_cell()
SelectedAfterSelect(index) ==
    IF IsValidCellIndex(index) THEN cells[index + 1].cell_id ELSE selected

handleRunCell(data) ==
    LET request_id == data.request_id
        index == OrNum(data.index, DefaultIndex)
        kind == "run_cell"
        cell == SelectedAfterSelect(index)
        failed(c) == Send(<< ErrorResponse(kind, request_id, ActionFailed) >>,
                          << Direct(kind, c) >>)
    IN  \E fail \in { "none", "select", "execute" } :
          IF fail = "select"
          THEN /\ failed(0)
               /\ cmds' = Append(cmds, Threw(data, 0, -1))
               /\ UNCHANGED << wsState, cells, selected, dirty, execCount,
                               runAllIssued, listeners, nextCell >>
          ELSE /\ selected' = cell
               /\ cmds' = Append(cmds, IF fail = "execute"
                                        THEN Threw(data, cell, -1)
                                        ELSE Received(data, cell, -1))
               /\ listeners' = Append(listeners,
                                      [request_id |-> request_id, kind |-> kind,
                                       cell |-> cell, position |-> index])
               /\ IF fail = "execute"
                  THEN /\ failed(cell)
                       /\ UNCHANGED << cells, dirty >>
                  ELSE /\ cells' = Execute(cells, cell)
                       /\ dirty' = (dirty \/ CellById(cells, cell).cell_type = "code")
                       /\ UNCHANGED << sent, sentBy, dropped >>
               /\ UNCHANGED << wsState, execCount, runAllIssued, nextCell >>

\* handleRunAllCells holding its response back until cells have run
handleRunAllCellsWaits(data) ==
    LET kind == "run_all_cells" IN
    /\ \E fail \in BOOLEAN :
         IF fail
         THEN /\ Send(<< ErrorResponse(kind, data.request_id, ActionFailed) >>,
                      << Direct(kind, 0) >>)
              /\ runAllIssued' = runAllIssued
              /\ cmds' = Append(cmds, Threw(data, 0, -1))
         ELSE /\ UNCHANGED << sent, sentBy, dropped >>
              /\ runAllIssued' = TRUE
              /\ cmds' = Append(cmds, Received(data, 0, -1))
    /\ UNCHANGED << wsState, cells, selected, dirty, execCount, listeners,
                    nextCell >>

\* handleRunAllCells
handleRunAllCells(data) ==
    LET kind == "run_all_cells" IN
    /\ \E fail \in BOOLEAN :
         IF fail
         THEN /\ Send(<< ErrorResponse(kind, data.request_id, ActionFailed) >>,
                      << Direct(kind, 0) >>)
              /\ runAllIssued' = runAllIssued
              /\ cmds' = Append(cmds, Threw(data, 0, -1))
         ELSE /\ Send(<< [type |-> ResultType(kind),
                          request_id |-> data.request_id,
                          status |-> "success"] >>,
                      << Direct(kind, 0) >>)
              /\ runAllIssued' = TRUE
              /\ cmds' = Append(cmds, Received(data, 0, -1))
    /\ UNCHANGED << wsState, cells, selected, dirty, execCount, listeners,
                    nextCell >>

\* IndexOutOfRange without the test for a negative index
IndexOutOfRangeUpperOnly(index, length) == index >= length

\* if (index < 0 || index >= cells.length) throw
IndexOutOfRange(index, length) == index < 0 \/ index >= length

\* cells[index]: undefined when there is no such element
CellAt(cs, index) ==
    IF index >= 0 /\ index < Len(cs) THEN Some(cs[index + 1]) ELSE Absent

handleGetCellTextOutput(data) ==
    LET request_id == data.request_id
        index == OrNum(data.index, DefaultIndex)
        maxLength == OrNum(data.max_length, DefaultMaxLength)
        kind == "get_cell_text_output"
        cell == CellAt(cells, index)
    IN  /\ IF IndexOutOfRange(index, Len(cells))
           THEN Send(<< ErrorResponse(kind, request_id, OutOfRange) >>,
                     << Direct(kind, 0) >>)
           ELSE IF cell = Absent
           THEN Send(<< ErrorResponse(kind, request_id, UndefinedCell) >>,
                     << Direct(kind, 0) >>)
           ELSE LET outputContent ==
                        extractCellOutputContent(cell[1], Some(maxLength))
                IN  Send(<< [type |-> ResultType(kind),
                             request_id |-> request_id,
                             status |-> "success",
                             cell_id |-> cell[1].cell_id,
                             index |-> index,
                             output_text |-> outputContent.text,
                             has_images |-> Len(outputContent.images) > 0]
                            @@ Field("is_truncated",
                                     Prop(outputContent, "is_text_truncated")) >>,
                         << Direct(kind, cell[1].cell_id) >>)
        /\ cmds' = Append(cmds, Received(data, 0, -1))
        /\ UNCHANGED << wsState, cells, selected, dirty, execCount,
                        runAllIssued, listeners, nextCell >>

handleGetCellImageOutput(data) ==
    LET request_id == data.request_id
        index == OrNum(data.index, DefaultIndex)
        kind == "get_cell_image_output"
        cell == CellAt(cells, index)
    IN  /\ IF IndexOutOfRange(index, Len(cells))
           THEN Send(<< ErrorResponse(kind, request_id, OutOfRange) >>,
                     << Direct(kind, 0) >>)
           ELSE IF cell = Absent
           THEN Send(<< ErrorResponse(kind, request_id, UndefinedCell) >>,
                     << Direct(kind, 0) >>)
           ELSE LET outputContent == extractCellOutputContent(cell[1], Absent)
                IN  Send(<< [type |-> ResultType(kind),
                             request_id |-> request_id,
                             status |-> "success",
                             cell_id |-> cell[1].cell_id,
                             index |-> index,
                             images |-> outputContent.images] >>,
                         << Direct(kind, cell[1].cell_id) >>)
        /\ cmds' = Append(cmds, Received(data, 0, -1))
        /\ UNCHANGED << wsState, cells, selected, dirty, execCount,
                        runAllIssued, listeners, nextCell >>

\* handleUnknown answering the envelope with an error message
handleUnknownReplies(data) ==
    /\ Send(<< [type |-> "error", request_id |-> data.request_id,
                status |-> "error", message |-> "Unknown message type"] >>,
            << Direct("unknown", 0) >>)
    /\ cmds' = Append(cmds, Received(data, 0, -1))
    /\ UNCHANGED << wsState, cells, selected, dirty, execCount, runAllIssued,
                    listeners, nextCell >>

\* the default branch of the switch: console.warn only
handleUnknown(data) ==
    /\ cmds' = Append(cmds, Received(data, 0, -1))
    /\ UNCHANGED << wsState, cells, selected, dirty, execCount, runAllIssued,
                    listeners, sent, sentBy, dropped, nextCell >>

\* ws.onmessage: one envelope is received and dispatched on its type
OnMessage(data) ==
    /\ wsState = "open"
    /\ UNCHANGED relayVars
    /\ \/ data.type = "insert_and_execute_cell" /\ handleInsertCell(data)
       \/ data.type = "save_notebook" /\ handleSaveNotebook(data)
       \/ data.type = "get_cells_info" /\ handleGetCellsInfo(data)
       \/ data.type = "get_notebook_info" /\ handleGetNotebookInfo(data)
       \/ data.type = "run_cell" /\ handleRunCell(data)
       \/ data.type = "run_all_cells" /\ handleRunAllCells(data)
       \/ data.type = "get_cell_text_output" /\ handleGetCellTextOutput(data)
       \/ data.type = "get_cell_image_output" /\ handleGetCellImageOutput(data)
       \/ data.type \notin CommandKinds /\ handleUnknown(data)

\* the kernel finishes the execution of a running cell: the cell gets its
\* outputs and finished_execute.CodeCell is triggered on the shared event
\* bus, which calls and removes every one-shot listener
FinishedExecute(id, outs) ==
    /\ \E i \in 1..Len(cells) : cells[i].cell_id = id /\ cells[i].running
    /\ cells' = Finish(cells, id, outs, execCount + 1)
    /\ execCount' = execCount + 1
    /\ dirty' = TRUE
    /\ Send([i \in 1..Len(listeners) |-> ListenerResult(listeners[i], cells')],
            [i \in 1..Len(listeners) |->
                [kind |-> listeners[i].kind, via |-> "listener",
                 cell |-> listeners[i].cell, finished |-> id]])
    /\ listeners' = << >>
    /\ UNCHANGED << wsState, selected, runAllIssued, cmds, nextCell >>
    /\ UNCHANGED relayVars

\* the restart issued by restart_run_all is carried out: the kernel restarts
\* and every code cell is executed
RestartRunAll ==
    /\ runAllIssued
    /\ runAllIssued' = FALSE
    /\ execCount' = 0
    /\ cells' = [i \in 1..Len(cells) |-> Execute(cells, cells[i].cell_id)[i]]
    /\ dirty' = TRUE
    /\ UNCHANGED << wsState, selected, listeners, sent, sentBy, dropped, cmds,
                    nextCell >>
    /\ UNCHANGED relayVars

Next ==
    \/ OnOpen
    \/ OnClose
    \/ /\ Len(cmds) < MaxCmds
       /\ \E data \in Envelopes(Len(cmds) + 1) : OnMessage(data)
    \/ \E i \in 1..Len(cells), outs \in OutputChoices :
          FinishedExecute(cells[i].cell_id, outs)
    \/ RestartRunAll

Spec == Init /\ [][Next]_vars

\* executions that were started finish, and an issued restart is carried out
FairSpec ==
    /\ Spec
    /\ WF_vars(\E i \in 1..Len(cells), outs \in OutputChoices :
                  FinishedExecute(cells[i].cell_id, outs))
    /\ WF_vars(RestartRunAll)

-----------------------------------------------------------------------------
(* Relay server and request correlation table                              *)

\* the configured timeout of a request, in clock ticks
Timeout == 2

ConnIds == 1..MaxConns
RequestIds == 1..MaxSubmits

\* register(id, deadline): a pending request, with the connection it is
\* in flight to
register(tbl, id, deadline, to) ==
    [r \in DOMAIN tbl \cup { id } |->
        IF r = id THEN [deadline |-> deadline, to |-> to] ELSE tbl[r]]

\* resolve leaving the entry in the table
resolveKeepsEntry(tbl, id) == tbl

\* resolve(id, response): the entry is removed
resolve(tbl, id) == [r \in DOMAIN tbl \ { id } |-> tbl[r]]

\* the entries whose deadline has passed
Due(tbl, t) == { r \in DOMAIN tbl : tbl[r].deadline <= t }

\* expireOlderThan leaving the expired entries in the table
expireOlderThanKeepsEntries(tbl, t) == tbl

\* expireOlderThan(now): the entries whose deadline has passed are removed
expireOlderThan(tbl, t) == [r \in DOMAIN tbl \ Due(tbl, t) |-> tbl[r]]

\* the entries in flight to a connection
InFlightTo(tbl, c) == { r \in DOMAIN tbl : tbl[r].to = c }

\* cancelAll(reason) for the requests of a connection that is torn down
cancelAll(tbl, c) == [r \in DOMAIN tbl \ InFlightTo(tbl, c) |-> tbl[r]]

\* the waiters of the requests ids are completed with outcome
Deliver(res, ids, outcome) ==
    [r \in DOMAIN res |-> IF r \in ids THEN Append(res[r], outcome) ELSE res[r]]

\* acceptConnection: a new connection, which has yet to declare its role
acceptConnection(c) ==
    /\ conns[c] = "none"
    /\ \A d \in 1..(c - 1) : conns[d] # "none"
    /\ conns' = [conns EXCEPT ![c] = "awaiting_role"]
    /\ UNCHANGED << registry, table, results, forwarded, received, now,
                    submitted >>
    /\ UNCHANGED clientVars

\* DeclareHost keeping the previously registered host connection
DeclareHostKeepsOld(c) ==
    /\ conns[c] = "awaiting_role"
    /\ conns' = [conns EXCEPT ![c] = "host"]
    /\ registry' = registry \cup { c }
    /\ UNCHANGED << table, results, forwarded, received, now, submitted >>
    /\ UNCHANGED clientVars

\* the first message declares the host role: the connection replaces the
\* registered host connection, which stays open, orphaned
DeclareHost(c) ==
    /\ conns[c] = "awaiting_role"
    /\ conns' = [conns EXCEPT ![c] = "host"]
    /\ registry' = { c }
    /\ UNCHANGED << table, results, forwarded, received, now, submitted >>
    /\ UNCHANGED clientVars

\* the first message declares the controller role: no displacement
DeclareController(c) ==
    /\ conns[c] = "awaiting_role"
    /\ conns' = [conns EXCEPT ![c] = "controller"]
    /\ UNCHANGED << registry, table, results, forwarded, received, now,
                    submitted >>
    /\ UNCHANGED clientVars

\* a connection closes: the requests pending on a host connection fail at
\* once with HostDisconnected
CloseConnection(c) ==
    /\ conns[c] \in { "awaiting_role", "host", "controller" }
    /\ conns' = [conns EXCEPT ![c] = "closed"]
    /\ registry' = registry \ { c }
    /\ table' = cancelAll(table, c)
    /\ results' = Deliver(results, InFlightTo(table, c), "HostDisconnected")
    /\ UNCHANGED << forwarded, received, now, submitted >>
    /\ UNCHANGED clientVars

\* submit registering and forwarding whether or not a host is connected
submitQueues ==
    /\ submitted < MaxSubmits
    /\ now + Timeout <= MaxTime
    /\ submitted' = submitted + 1
    /\ \E h \in registry \cup { 0 } :
          /\ h = 0 => registry = { }
          /\ h # 0 => h \in registry
          /\ table' = register(table, submitted + 1, now + Timeout, h)
          /\ forwarded' = Append(forwarded, [id |-> submitted + 1, to |-> h])
    /\ UNCHANGED << conns, registry, results, received, now >>
    /\ UNCHANGED clientVars

\* submit(command): NoHostConnected at once when no host connection is
\* registered; otherwise the request is registered with its deadline and
\* the command is forwarded to the current host connection
submit ==
    /\ submitted < MaxSubmits
    /\ submitted' = submitted + 1
    /\ IF registry = { }
       THEN /\ results' = Deliver(results, { submitted + 1 }, "NoHostConnected")
            /\ UNCHANGED << table, forwarded >>
       ELSE /\ now + Timeout <= MaxTime
            /\ \E h \in registry :
                  /\ table' = register(table, submitted + 1, now + Timeout, h)
                  /\ forwarded' = Append(forwarded,
                                         [id |-> submitted + 1, to |-> h])
            /\ results' = results
    /\ UNCHANGED << conns, registry, received, now >>
    /\ UNCHANGED clientVars

\* a response envelope arrives on a host connection for a command that was
\* forwarded to it: the waiter is resolved and the entry removed when the
\* id is found and the connection is the current host; otherwise the
\* response is discarded
OnResponse(c, rid) ==
    /\ Len(received) < MaxResponses
    /\ conns[c] = "host"
    /\ \E i \in 1..Len(forwarded) : forwarded[i] = [id |-> rid, to |-> c]
    /\ LET found == c \in registry /\ rid \in DOMAIN table
       IN  /\ received' = Append(received,
                                 [id |-> rid, from |-> c, found |-> found])
           /\ IF found
              THEN /\ table' = resolve(table, rid)
                   /\ results' = Deliver(results, { rid }, "response")
              ELSE UNCHANGED << table, results >>
    /\ UNCHANGED << conns, registry, forwarded, now, submitted >>
    /\ UNCHANGED clientVars

\* the clock advances
Tick ==
    /\ now < MaxTime
    /\ now' = now + 1
    /\ UNCHANGED << conns, registry, table, results, forwarded, received,
                    submitted >>
    /\ UNCHANGED clientVars

\* the expiry timer: every request whose deadline has passed fails with
\* RequestTimeout and is removed
Expire ==
    /\ Due(table, now) # { }
    /\ table' = expireOlderThan(table, now)
    /\ results' = Deliver(results, Due(table, now), "RequestTimeout")
    /\ UNCHANGED << conns, registry, forwarded, received, now, submitted >>
    /\ UNCHANGED clientVars

\* the relay with a notebook client that has not connected
RelayInit ==
    /\ wsState = "connecting"
    /\ cells = InitCells(<< >>)
    /\ selected = 1
    /\ dirty = FALSE
    /\ execCount = 1
    /\ runAllIssued = FALSE
    /\ listeners = << >>
    /\ sent = << >>
    /\ sentBy = << >>
    /\ dropped = 0
    /\ cmds = << >>
    /\ nextCell = 3
    /\ RelayIdle

RelayNext ==
    \/ \E c \in ConnIds : acceptConnection(c)
    \/ \E c \in ConnIds : DeclareHost(c)
    \/ \E c \in ConnIds : DeclareController(c)
    \/ \E c \in ConnIds : CloseConnection(c)
    \/ submit
    \/ \E c \in ConnIds, rid \in RequestIds : OnResponse(c, rid)
    \/ Tick
    \/ Expire

RelaySpec == RelayInit /\ [][RelayNext]_vars

\* the clock keeps advancing up to its bound and the expiry timer runs
FairRelaySpec ==
    /\ RelaySpec
    /\ WF_vars(Tick)
    /\ WF_vars(Expire)

-----------------------------------------------------------------------------
(* Properties                                                              *)

IsResponse(m) == "request_id" \in DOMAIN m

\* the responses sent so far that carry the given request_id
ResponsesTo(rid) ==
    { i \in 1..Len(sent) : IsResponse(sent[i]) /\ sent[i].request_id = rid }

Answered(rid) == ResponsesTo(rid) # { }

ReceivedIds == 1..Len(cmds)

KindOf(rid) == cmds[rid].data.type

\* C1: for every command envelope received, at most one response envelope
\* carrying its request_id is sent, in every interleaving of commands,
\* execution-finished signals and action failures.
C1_AtMostOneResponse ==
    \A rid \in ReceivedIds : Cardinality(ResponsesTo(rid)) <= 1

\* C2: every received command of a recognised kind is eventually answered
\* with its request_id, while the connection stays open and every started
\* execution eventually finishes.
C2_EventuallyAnswered ==
    \A rid \in 1..MaxCmds :
        (rid \in ReceivedIds /\ KindOf(rid) \in CommandKinds)
            ~> (Answered(rid) \/ wsState = "closed")

\* the command handled by the step, when the step handles one
Handles == Len(cmds') = Len(cmds) + 1
NewCmd == cmds'[Len(cmds')]
NewMsg == sent'[Len(sent')]
OneMoreSent == Len(sent') = Len(sent) + 1

\* an index that is negative or >= the cell count
OutsideDocument(index) == index < 0 \/ index >= NCells

\* the result kind the protocol pairs with each command kind
C3_Pairing ==
    [k \in CommandKinds |->
        CASE k = "insert_and_execute_cell" -> "insert_cell_result"
          [] k = "save_notebook" -> "save_result"
          [] k = "get_cells_info" -> "cells_info_result"
          [] k = "get_notebook_info" -> "notebook_info_result"
          [] k = "run_cell" -> "run_cell_result"
          [] k = "run_all_cells" -> "run_all_cells_result"
          [] k = "get_cell_text_output" -> "get_cell_text_output_result"
          [] k = "get_cell_image_output" -> "get_cell_image_output_result"]

\* C3: with several commands in flight and completing in any order, every
\* response carries the request_id of the command whose handler produced it,
\* the result kind paired with that command's kind, and a status of success
\* or error (with a message on error).
C3_ResponsesPaired ==
    \A i \in 1..Len(sent) :
        IsResponse(sent[i]) =>
            LET m == sent[i] IN
            /\ m.request_id \in ReceivedIds
            /\ KindOf(m.request_id) \in CommandKinds
            /\ m.type = C3_Pairing[KindOf(m.request_id)]
            /\ m.status \in { "success", "error" }
            /\ m.status = "error" => "message" \in DOMAIN m
            /\ sentBy[i].kind = KindOf(m.request_id)
            /\ sentBy[i].via = "listener" =>
                   sentBy[i].cell = cmds[m.request_id].cell

\* C3 witness: two commands were in flight at once and the later one was
\* answered first.
C3_Witness ==
    \E i, j \in 1..Len(sent) :
        /\ i < j
        /\ IsResponse(sent[i]) /\ IsResponse(sent[j])
        /\ sent[i].request_id > sent[j].request_id
        /\ sentBy[j].via = "listener"

\* the success responses of commands that execute a code cell of their own
ExecutionResults ==
    { i \in 1..Len(sent) :
        /\ IsResponse(sent[i])
        /\ sent[i].status = "success"
        /\ \/ sent[i].type = "run_cell_result"
           \/ /\ sent[i].type = "insert_cell_result"
              /\ OrStr(cmds[sent[i].request_id].data.cell_type, "code") = "code" }

\* C4: the success response of insert_and_execute_cell (code) and of run_cell
\* is sent only on the execution-finished signal of the command's own cell,
\* also when several such commands are suspended at once.
C4_OwnSignal ==
    \A i \in ExecutionResults :
        /\ sentBy[i].via = "listener"
        /\ sentBy[i].finished = cmds[sent[i].request_id].cell

\* the step that handles run_cell with an index outside the document
C5_Step ==
    (/\ Handles
     /\ NewCmd.data.type = "run_cell"
     /\ NewCmd.data.index # Absent
     /\ OutsideDocument(NewCmd.data.index[1]))
    => /\ OneMoreSent
       /\ NewMsg.type = "run_cell_result"
       /\ NewMsg.status = "error"
       /\ NewMsg.request_id = NewCmd.data.request_id
       /\ listeners' = listeners
       /\ cells' = cells
       /\ selected' = selected

\* C5: run_cell with an index that is negative or >= the cell count is
\* answered with a status error run_cell_result, executes no cell, registers
\* no listener and leaves the document unchanged.
C5_RunCellOutOfRange == [][C5_Step]_vars

\* the step that handles an output request with an explicit index
C6_Handled ==
    (/\ Handles
     /\ NewCmd.data.type \in { "get_cell_text_output", "get_cell_image_output" }
     /\ NewCmd.data.index # Absent)
    => LET index == NewCmd.data.index[1] IN
       /\ OneMoreSent
       /\ NewMsg.request_id = NewCmd.data.request_id
       /\ NewMsg.type = C3_Pairing[NewCmd.data.type]
       /\ listeners' = listeners
       /\ doc' = doc
       /\ IF OutsideDocument(index)
          THEN /\ NewMsg.status = "error"
               /\ NewMsg.message = OutOfRange
          ELSE /\ NewMsg.status = "success"
               /\ NewMsg.index = index
               /\ NewMsg.cell_id = cells[index + 1].cell_id

\* no step other than the one that handles the command sends such a response
C6_OnlyOnce ==
    \A k \in (Len(sent) + 1)..Len(sent') :
        (/\ IsResponse(sent'[k])
         /\ sent'[k].type \in { "get_cell_text_output_result",
                                "get_cell_image_output_result" })
        => /\ Handles
           /\ OneMoreSent
           /\ sent'[k].request_id = NewCmd.data.request_id

C6_Step == C6_Handled /\ C6_OnlyOnce

\* C6: get_cell_text_output and get_cell_image_output with an index that is
\* negative or >= the cell count are answered with exactly one status error
\* response (out of range) carrying the request_id, and the document is
\* unchanged; with an index in [0, cell count) they are answered with status
\* success for the cell at exactly that index.
C6_OutputIndexChecked == [][C6_Step]_vars

\* C6 witness: an out-of-range output request was answered with an error and
\* an in-range one with success.
C6_Witness ==
    \E r1, r2 \in ReceivedIds :
        /\ KindOf(r1) = "get_cell_text_output"
        /\ cmds[r1].data.index # Absent
        /\ cmds[r1].data.index[1] < 0
        /\ \E i \in ResponsesTo(r1) : sent[i].status = "error"
        /\ KindOf(r2) = "get_cell_image_output"
        /\ cmds[r2].data.index # Absent
        /\ cmds[r2].data.index[1] \in 1..(cmds[r2].ncells - 1)
        /\ \E i \in ResponsesTo(r2) : sent[i].status = "success"

\* C7: insert_and_execute_cell with position p in [0, cell count], p = 0
\* included, inserts the new cell at index p and its success response
\* reports position = p.
C7_InsertAtPosition ==
    \A rid \in ReceivedIds :
        LET c == cmds[rid] IN
        (/\ c.data.type = "insert_and_execute_cell"
         /\ c.cell # 0
         /\ c.data.position # Absent
         /\ c.data.position[1] >= 0
         /\ c.data.position[1] <= c.ncells)
        => /\ c.realized = c.data.position[1]
           /\ \A i \in ResponsesTo(rid) :
                  sent[i].status = "success" =>
                      sent[i].position = c.data.position[1]

\* what output capture finds in a cell, before any truncation
FullText(cell) ==
    IF cell.cell_type = "code" THEN ForEachText(cell.outputs) ELSE << >>
AllImages(cell) ==
    IF cell.cell_type = "code" THEN ForEachImages(cell.outputs) ELSE << >>

\* the flags of the execution results a step sends
C8_Step ==
    \A k \in (Len(sent) + 1)..Len(sent') :
        LET m == sent'[k] IN
        (/\ IsResponse(m)
         /\ m.type \in { "insert_cell_result", "run_cell_result" }
         /\ m.status = "success")
        => LET cell == CellById(cells', m.cell_id) IN
           /\ "is_truncated" \in DOMAIN m
           /\ m.is_truncated = (Len(FullText(cell)) > DefaultMaxLength)
           /\ m.has_images = (Len(AllImages(cell)) > 0)

\* C8: every success insert_cell_result and run_cell_result carries a boolean
\* is_truncated that is true exactly when the concatenated text output of the
\* cell is longer than 1500 characters, and a boolean has_images that is true
\* exactly when at least one image record was captured.
C8_Flags == [][C8_Step]_vars

\* the step that handles get_cell_text_output with a max_length
C9_Step ==
    (/\ Handles
     /\ NewCmd.data.type = "get_cell_text_output"
     /\ NewCmd.data.max_length # Absent
     /\ NewCmd.data.index # Absent
     /\ ~ OutsideDocument(NewCmd.data.index[1])
     /\ cells[NewCmd.data.index[1] + 1].cell_type = "code")
    => LET M == NewCmd.data.max_length[1]
           full == FullText(cells[NewCmd.data.index[1] + 1])
       IN  /\ OneMoreSent
           /\ NewMsg.status = "success"
           /\ IF Len(full) > M
              THEN /\ NewMsg.output_text = SubSeq(full, 1, M)
                   /\ NewMsg.is_truncated = TRUE
              ELSE /\ NewMsg.output_text = full
                   /\ NewMsg.is_truncated = FALSE

\* C9: get_cell_text_output on a code cell whose text has length L with
\* max_length = M returns the first M characters and is_truncated = true if
\* L > M, and the full text and is_truncated = false if L <= M.
C9_Truncation == [][C9_Step]_vars

\* C10: output_text of every insert_cell_result and run_cell_result has
\* length at most 1500, and output_text of every get_cell_text_output_result
\* has length at most the max_length supplied (0 included), at most 1500
\* when max_length is omitted.
C10_TextBounded ==
    \A i \in 1..Len(sent) :
        (IsResponse(sent[i]) /\ "output_text" \in DOMAIN sent[i]) =>
            LET m == sent[i]
                limit == IF m.type = "get_cell_text_output_result"
                            /\ cmds[m.request_id].data.max_length # Absent
                         THEN cmds[m.request_id].data.max_length[1]
                         ELSE DefaultMaxLength
            IN  Len(m.output_text) <= limit

\* the command kinds whose handler sends its response in its own step
AtOnceKinds ==
    { "save_notebook", "get_cells_info", "get_notebook_info", "run_all_cells",
      "get_cell_text_output", "get_cell_image_output" }

SomeThrew == \E r \in ReceivedIds : cmds[r].threw

\* the step in which a notebook action throws sends the error response
C11_Caught ==
    (Handles /\ NewCmd.threw)
    => /\ OneMoreSent
       /\ NewMsg.status = "error"
       /\ NewMsg.request_id = NewCmd.data.request_id
       /\ NewMsg.type = C3_Pairing[NewCmd.data.type]
       /\ "message" \in DOMAIN NewMsg
       /\ NewMsg.message = ActionFailed
       /\ wsState' = "open"

\* no other step sends an error response
C11_OnlyOnce ==
    \A k \in (Len(sent) + 1)..Len(sent') :
        (IsResponse(sent'[k]) /\ sent'[k].status = "error")
        => /\ Handles
           /\ OneMoreSent
           /\ sent'[k].request_id = NewCmd.data.request_id

\* after a failure, the commands received are still dispatched and answered
C11_LoopGoesOn ==
    (Handles /\ SomeThrew /\ NewCmd.data.type \in AtOnceKinds)
    => /\ OneMoreSent
       /\ NewMsg.request_id = NewCmd.data.request_id
       /\ NewMsg.type = C3_Pairing[NewCmd.data.type]

C11_Step == C11_Caught /\ C11_OnlyOnce /\ C11_LoopGoesOn

\* C11: when the notebook action of a handler throws, exactly one response
\* with status error, the command's request_id, the matching result kind
\* and the failure's message is sent, and the dispatch loop keeps
\* processing: every later command is still handled and answered.
C11_FailureAnswered == [][C11_Step]_vars

\* C11 witness: the first command failed and was answered with an error, and
\* the next command was handled and answered with success.
C11_Witness ==
    /\ Len(cmds) = 2
    /\ cmds[1].threw
    /\ \E i \in ResponsesTo(1) : sent[i].status = "error"
    /\ ~ cmds[2].threw
    /\ \E i \in ResponsesTo(2) : sent[i].status = "success"

IsRoleDeclaration(m) == "role" \in DOMAIN m /\ m.role = "notebook"

\* C12: the first message the client sends on a connection is the role
\* declaration {role: "notebook"}, sent once when the connection opens;
\* nothing is sent before it, and every other message is a response to a
\* command.
C12_RoleFirst ==
    /\ wsState = "connecting" => sent = << >>
    /\ wsState = "open" => Len(sent) >= 1
    /\ Len(sent) >= 1 => IsRoleDeclaration(sent[1]) /\ DOMAIN sent[1] = { "role" }
    /\ \A i \in 2..Len(sent) :
          /\ IsResponse(sent[i])
          /\ "role" \notin DOMAIN sent[i]
          /\ sent[i].request_id \in ReceivedIds

\* C12 witness: the role declaration was followed by two responses.
C12_Witness ==
    /\ Len(sent) >= 3
    /\ IsRoleDeclaration(sent[1])
    /\ IsResponse(sent[2])
    /\ IsResponse(sent[3])

\* C13: after the connection to the relay closes, the client eventually
\* has an open connection again (it keeps retrying to reconnect).
C13_Reconnects == (wsState = "closed") ~> (wsState = "open")

IsUnknown(c) == c.data.type \notin CommandKinds

\* the step that receives an unknown type changes nothing but the log
C18_Discarded ==
    (Handles /\ IsUnknown(NewCmd))
    => /\ sent' = sent
       /\ dropped' = dropped
       /\ doc' = doc
       /\ listeners' = listeners
       /\ runAllIssued' = runAllIssued
       /\ wsState' = wsState

\* no message is ever sent for an unknown type
C18_NoReply ==
    \A k \in 1..Len(sent') :
        IsResponse(sent'[k]) => ~ IsUnknown(cmds'[sent'[k].request_id])

\* a command that follows an unknown type is still handled and answered
C18_LoopGoesOn ==
    (/\ Handles
     /\ \E r \in ReceivedIds : IsUnknown(cmds[r])
     /\ NewCmd.data.type \in AtOnceKinds)
    => /\ OneMoreSent
       /\ NewMsg.request_id = NewCmd.data.request_id
       /\ NewMsg.type = C3_Pairing[NewCmd.data.type]

C18_Step == C18_Discarded /\ C18_NoReply /\ C18_LoopGoesOn

\* C18: an envelope whose type is none of the known command kinds is
\* discarded: no handler runs, the document is unchanged, no reply is
\* sent, and later commands are still handled and answered.
C18_UnknownIgnored == [][C18_Step]_vars

\* C18 witness: an unknown type was received and left unanswered, and the
\* command after it was answered.
C18_Witness ==
    /\ Len(cmds) = 2
    /\ IsUnknown(cmds[1])
    /\ ResponsesTo(1) = { }
    /\ ~ IsUnknown(cmds[2])
    /\ ResponsesTo(2) # { }

\* C19: insert_and_execute_cell with a position outside [0, cell count] is
\* rejected with an error response and no cell inserted, or clamped into
\* range; every success response reports as position the index at which
\* the new cell sat in the document right after the insertion.
C19_RealizedPosition ==
    \A rid \in ReceivedIds :
        LET c == cmds[rid] IN
        c.data.type = "insert_and_execute_cell"
        => /\ c.cell = 0 =>
                 \A i \in ResponsesTo(rid) : sent[i].status = "error"
           /\ c.cell # 0 =>
                 /\ c.realized \in 0..c.ncells
                 /\ \A i \in ResponsesTo(rid) :
                        sent[i].status = "success" =>
                            sent[i].position = c.realized

\* the step handling run_all_cells issues the action and answers at once
C20_SameStep ==
    (Handles /\ NewCmd.data.type = "run_all_cells" /\ ~ NewCmd.threw)
    => /\ runAllIssued'
       /\ OneMoreSent
       /\ NewMsg.type = "run_all_cells_result"
       /\ NewMsg.request_id = NewCmd.data.request_id
       /\ NewMsg.status = "success"
       /\ listeners' = listeners
       /\ cells' = cells
       /\ execCount' = execCount

\* no other step sends a run_all_cells_result
C20_NotOnSignal ==
    \A k \in (Len(sent) + 1)..Len(sent') :
        (IsResponse(sent'[k]) /\ sent'[k].type = "run_all_cells_result")
        => /\ Handles
           /\ NewCmd.data.type = "run_all_cells"
           /\ sentBy'[k].via = "handler"

\* no listener is ever registered for a run_all_cells command
C20_NoListener ==
    \A i \in 1..Len(listeners') :
        cmds'[listeners'[i].request_id].data.type # "run_all_cells"

C20_Step == C20_SameStep /\ C20_NotOnSignal /\ C20_NoListener

\* C20: run_all_cells issues the restart-and-run-all action and sends its
\* run_all_cells_result success response in the same handler step, without
\* waiting for a finished signal of any cell; it registers no listener.
C20_RunAllAnswersAtOnce == [][C20_Step]_vars

\* C20 witness: the success response is out while the restart issued by the
\* handler is still to be carried out and no cell is running.
C20_Witness ==
    /\ runAllIssued
    /\ \A i \in 1..Len(cells) : ~ cells[i].running
    /\ \E rid \in ReceivedIds :
          /\ cmds[rid].data.type = "run_all_cells"
          /\ \E i \in ResponsesTo(rid) :
                /\ sent[i].status = "success"
                /\ sent[i].type = "run_all_cells_result"

-----------------------------------------------------------------------------
(* Properties of the relay                                                 *)

\* the step is the receipt of a response envelope
ResponseStep == Len(received') = Len(received) + 1
NewResponse == received'[Len(received')]

\* the step is a call of submit
SubmitStep == submitted' = submitted + 1

\* tbl2 is tbl1 without the entries ids
Without(tbl1, ids, tbl2) ==
    /\ DOMAIN tbl2 = DOMAIN tbl1 \ ids
    /\ \A q \in DOMAIN tbl2 : tbl2[q] = tbl1[q]

OthersKeep(ids) == \A q \in RequestIds \ ids : results'[q] = results[q]

AtMostOneResult == \A r \in RequestIds : Len(results'[r]) <= 1

\* a response from the host connection for a pending id resolves that
\* waiter and removes the entry; any other response changes nothing
C14_Step ==
    /\ ResponseStep =>
          LET r == NewResponse.id IN
          /\ IF NewResponse.from \in registry /\ r \in DOMAIN table
             THEN /\ Without(table, { r }, table')
                  /\ results'[r] = << "response" >>
                  /\ OthersKeep({ r })
             ELSE /\ table' = table
                  /\ results' = results
          /\ conns' = conns
          /\ registry' = registry
    /\ AtMostOneResult

\* C14: in the relay, a response envelope whose request_id matches a
\* pending request resolves exactly that one waiter and removes the entry;
\* a further response with the same request_id is discarded: no second
\* result is delivered, the table is unchanged and the relay goes on.
C14_ResolveOnce == [][C14_Step]_vars

\* C14 witness: a request was resolved by a response and a second response
\* with its id was received and discarded.
C14_Witness ==
    \E r \in RequestIds, i, j \in 1..Len(received) :
        /\ i < j
        /\ received[i].id = r /\ received[i].found
        /\ received[j].id = r /\ ~ received[j].found
        /\ results[r] = << "response" >>
        /\ r \notin DOMAIN table

Last(q) == q[Len(q)]

\* a timeout is signalled only for a pending request whose deadline has
\* passed, once, with the entry removed; a response that comes after it
\* changes nothing; a request is in the table exactly while it has no
\* result
C15_Step ==
    /\ \A r \in RequestIds :
          (results'[r] # results[r] /\ Last(results'[r]) = "RequestTimeout")
          => /\ r \in DOMAIN table
             /\ table[r].deadline <= now
             /\ r \notin DOMAIN table'
             /\ results'[r] = << "RequestTimeout" >>
    /\ (ResponseStep /\ results[NewResponse.id] = << "RequestTimeout" >>)
       => /\ results' = results
          /\ table' = table
    /\ \A r \in RequestIds :
          /\ r \in DOMAIN table' => results'[r] = << >> /\ r <= submitted'
          /\ (r <= submitted' /\ r \notin DOMAIN table') => Len(results'[r]) = 1
    /\ AtMostOneResult

TimedOut(r) == r \in DOMAIN table /\ table[r].deadline <= now

Completed(r) == r \notin DOMAIN table /\ Len(results[r]) = 1

\* C15: a pending request whose deadline elapses without a response is
\* resolved exactly once with RequestTimeout and removed from the table; a
\* response arriving afterwards is discarded; no request is completed
\* twice and no table entry is leaked.
C15_TimeoutOnce ==
    /\ [][C15_Step]_vars
    /\ \A r \in RequestIds : TimedOut(r) ~> Completed(r)

\* C15 witness: a request timed out and the response that came afterwards
\* from the current host connection was discarded.
C15_Witness ==
    \E r \in RequestIds, i \in 1..Len(received) :
        /\ results[r] = << "RequestTimeout" >>
        /\ r \notin DOMAIN table
        /\ received[i].id = r
        /\ received[i].from \in registry
        /\ ~ received[i].found

\* submit without a host connection fails at once and registers nothing
C16_Step ==
    /\ (SubmitStep /\ registry = { })
       => /\ results'[submitted'] = << "NoHostConnected" >>
          /\ OthersKeep({ submitted' })
          /\ table' = table
          /\ forwarded' = forwarded
    /\ \A r \in RequestIds :
          results'[r] = << "NoHostConnected" >>
          => /\ r \notin DOMAIN table'
             /\ \A i \in 1..Len(forwarded') : forwarded'[i].id # r

\* C16: submit issued while no host connection is open fails immediately
\* with NoHostConnected and leaves the correlation table unchanged: the
\* table has no entry for such a call and no command is forwarded for it.
C16_NoHostFailsFast == [][C16_Step]_vars

\* C16 witness: two submit calls failed with NoHostConnected, the second
\* one after the host connection had closed.
C16_Witness ==
    /\ results[1] = << "NoHostConnected" >>
    /\ results[2] = << "NoHostConnected" >>
    /\ \E c \in ConnIds : conns[c] = "closed"
    /\ table = << >>
    /\ forwarded = << >>

\* a host declaration replaces the registered connection, and submit
\* forwards to the registered connection only
C17_Step ==
    /\ \A c \in ConnIds :
          (conns[c] = "awaiting_role" /\ conns'[c] = "host") => registry' = { c }
    /\ (SubmitStep /\ registry # { })
       => /\ Len(forwarded') = Len(forwarded) + 1
          /\ Last(forwarded').id = submitted'
          /\ Last(forwarded').to \in registry
          /\ registry' = registry
          /\ submitted' \in DOMAIN table'
          /\ table'[submitted'].to = Last(forwarded').to

PendingOnOld(r) == r \in DOMAIN table /\ table[r].to \notin registry

FailedByRelay(r) ==
    /\ r \notin DOMAIN table
    /\ results[r] \in { << "HostDisconnected" >>, << "RequestTimeout" >> }

\* C17: at most one host connection is registered at any time; a new host
\* declaration supersedes the previous one, commands submitted after the
\* switch are forwarded only to the new connection, and every request
\* still pending against the old connection eventually resolves with
\* HostDisconnected or RequestTimeout.
C17_HostSuperseded ==
    /\ [](Cardinality(registry) <= 1)
    /\ [][C17_Step]_vars
    /\ \A r \in RequestIds : PendingOnOld(r) ~> FailedByRelay(r)

\* C17 witness: a request forwarded to a superseded host connection has
\* failed with HostDisconnected or RequestTimeout, and a later command
\* went to the connection that superseded it.
C17_Witness ==
    \E i, j \in 1..Len(forwarded) :
        /\ i < j
        /\ forwarded[i].to # forwarded[j].to
        /\ forwarded[j].to \in registry
        /\ FailedByRelay(forwarded[i].id)

-----------------------------------------------------------------------------
(* Properties of output capture and of the connection                      *)

\* the text of one fragment: its text field, else its text/plain
\* representation, else nothing
TextOfFragment(f) ==
    IF "text" \in DOMAIN f THEN f.text
    ELSE IF "data" \in DOMAIN f /\ "text/plain" \in DOMAIN f.data
         THEN f.data["text/plain"]
         ELSE << >>

\* f1 + ... + fn
RECURSIVE Concatenation(_)
Concatenation(fs) ==
    IF Len(fs) = 0 THEN << >>
    ELSE Concatenation(SubSeq(fs, 1, Len(fs) - 1)) \o TextOfFragment(fs[Len(fs)])

\* the max length that applies to a response carrying output_text
MaxLengthOf(m) ==
    IF m.type = "get_cell_text_output_result"
       /\ cmds'[m.request_id].data.max_length # Absent
    THEN cmds'[m.request_id].data.max_length[1]
    ELSE DefaultMaxLength

FirstChars(text, M) == [i \in 1..(IF Len(text) < M THEN Len(text) ELSE M) |-> text[i]]

\* the output_text of a response is the first M characters of the
\* concatenation of the cell's fragment texts
TextIsPrefixOfAll(m) ==
    m.output_text =
        FirstChars(Concatenation(CellById(cells', m.cell_id).outputs), MaxLengthOf(m))

C21_Step ==
    \A k \in (Len(sent) + 1)..Len(sent') :
        (IsResponse(sent'[k]) /\ "output_text" \in DOMAIN sent'[k])
        => TextIsPrefixOfAll(sent'[k])

\* C21: the captured text is built by visiting the cell's output fragments
\* in order, appending for each its text field if present, otherwise its
\* text/plain representation if present; it is truncated once, so with max
\* length M the text returned is the first M characters of f1 + ... + fn.
C21_TruncatedOnce == [][C21_Step]_vars

\* the same for every response but the ones to a max_length of 0
C21_ExceptZero ==
    [][\A k \in (Len(sent) + 1)..Len(sent') :
          (/\ IsResponse(sent'[k])
           /\ "output_text" \in DOMAIN sent'[k]
           /\ MaxLengthOf(sent'[k]) # 0)
          => TextIsPrefixOfAll(sent'[k])]_vars

\* the fixed encoding order
EncodingOrder == << "image/png", "image/jpeg", "image/svg+xml" >>

\* the records of the encodings k, k+1, ... present in a fragment
RECURSIVE RecordsFrom(_, _)
RecordsFrom(f, k) ==
    IF k > Len(EncodingOrder) THEN << >>
    ELSE (IF "data" \in DOMAIN f /\ EncodingOrder[k] \in DOMAIN f.data
          THEN << [format |-> EncodingOrder[k], data |-> f.data[EncodingOrder[k]]] >>
          ELSE << >>) \o RecordsFrom(f, k + 1)

\* one record per (fragment, encoding) pair, by fragment, then by encoding
RECURSIVE RecordsOf(_)
RecordsOf(fs) ==
    IF Len(fs) = 0 THEN << >>
    ELSE RecordsOf(SubSeq(fs, 1, Len(fs) - 1)) \o RecordsFrom(fs[Len(fs)], 1)

C22_Step ==
    \A k \in (Len(sent) + 1)..Len(sent') :
        LET m == sent'[k] IN
        (/\ IsResponse(m)
         /\ m.type = "get_cell_image_output_result"
         /\ m.status = "success")
        => /\ m.images = RecordsOf(CellById(cells', m.cell_id).outputs)
           /\ "output_text" \notin DOMAIN m
           /\ "is_truncated" \notin DOMAIN m

\* C22: the images of a get_cell_image_output_result are exactly one record
\* per (fragment, encoding) pair present in the cell's outputs, in fragment
\* order and within a fragment in the order png, jpeg, svg+xml, whether or
\* not the fragment gave text; they are not truncated and the response has
\* no output_text.
C22_AllImagesInOrder == [][C22_Step]_vars

\* C22 witness: a response with the jpeg of a fragment that also gave text,
\* followed by the png and the svg of the next fragment.
C22_Witness ==
    \E i \in 1..Len(sent) :
        /\ IsResponse(sent[i])
        /\ sent[i].type = "get_cell_image_output_result"
        /\ sent[i].status = "success"
        /\ Len(sent[i].images) = 3
        /\ sent[i].images[1].format = "image/jpeg"
        /\ sent[i].images[2].format = "image/png"
        /\ sent[i].images[3].format = "image/svg+xml"

\* a cell that is not a code cell, or a code cell with no recorded outputs
NothingToCapture(cell) == cell.cell_type # "code" \/ cell.outputs = << >>

NoOutput == [text |-> << >>, is_text_truncated |-> FALSE, images |-> << >>]

\* output capture on the cells of the document that have nothing to capture
C23_CaptureEmpty ==
    \A i \in 1..Len(cells), M \in OptMaxLength \cup { Some(DefaultMaxLength) } :
        NothingToCapture(cells[i])
        => extractCellOutputContent(cells[i], M) = NoOutput

\* every response that reports the capture on such a cell is a success
\* with empty output
C23_Reported ==
    \A k \in (Len(sent) + 1)..Len(sent') :
        LET m == sent'[k] IN
        (/\ IsResponse(m)
         /\ "cell_id" \in DOMAIN m
         /\ NothingToCapture(CellById(cells', m.cell_id)))
        => /\ m.status = "success"
           /\ "output_text" \in DOMAIN m => m.output_text = << >>
           /\ "has_images" \in DOMAIN m => m.has_images = FALSE
           /\ "is_truncated" \in DOMAIN m => m.is_truncated = FALSE
           /\ "images" \in DOMAIN m => m.images = << >>

\* reading the output of such a cell is answered with success in the step
C23_ReadAnswered ==
    (/\ Handles
     /\ NewCmd.data.type \in { "get_cell_text_output", "get_cell_image_output" }
     /\ NewCmd.data.index # Absent
     /\ ~ OutsideDocument(NewCmd.data.index[1])
     /\ NothingToCapture(cells[NewCmd.data.index[1] + 1]))
    => /\ OneMoreSent
       /\ NewMsg.request_id = NewCmd.data.request_id
       /\ NewMsg.status = "success"
       /\ NewMsg.cell_id = cells[NewCmd.data.index[1] + 1].cell_id

\* the cells whose execution is in progress
RunningIds(cs) == { cs[i].cell_id : i \in { j \in 1..Len(cs) : cs[j].running } }

\* inserting a markdown cell is answered in the step of the handler
C23_MarkdownAtOnce ==
    (/\ Handles
     /\ NewCmd.data.type = "insert_and_execute_cell"
     /\ NewCmd.data.cell_type = Some("markdown")
     /\ ~ NewCmd.threw)
    => /\ OneMoreSent
       /\ NewMsg.request_id = NewCmd.data.request_id
       /\ NewMsg.type = "insert_cell_result"
       /\ NewMsg.status = "success"
       /\ NewMsg.output_text = << >>
       /\ NewMsg.has_images = FALSE
       /\ listeners' = listeners
       /\ RunningIds(cells') = RunningIds(cells)

C23_Step == C23_Reported /\ C23_ReadAnswered /\ C23_MarkdownAtOnce

\* C23: for a cell that is not a code cell, or a code cell with no recorded
\* outputs, output capture yields empty text, no images and a false
\* truncation flag, and the command is answered with status success, not
\* error; insert_and_execute_cell with cell_type markdown sends its success
\* response in the step of the handler, waiting for no completion signal,
\* with empty output_text and has_images false.
C23_EmptyCapture == [](C23_CaptureEmpty) /\ [][C23_Step]_vars

\* C23 witness: the handler's own step answered the insertion of a markdown
\* cell with success and empty output.
C23_Witness ==
    \E i \in 1..Len(sent) :
        /\ IsResponse(sent[i])
        /\ sent[i].type = "insert_cell_result"
        /\ sent[i].status = "success"
        /\ sentBy[i].via = "handler"
        /\ cmds[sent[i].request_id].data.cell_type = Some("markdown")
        /\ sent[i].output_text = << >>
        /\ sent[i].has_images = FALSE

ReadOnlyKinds ==
    { "get_cells_info", "get_notebook_info", "get_cell_text_output",
      "get_cell_image_output" }

\* a read-only command changes nothing of the document, whatever its outcome
C24_Frame ==
    (Handles /\ NewCmd.data.type \in ReadOnlyKinds)
    => /\ cells' = cells
       /\ selected' = selected
       /\ dirty' = dirty
       /\ execCount' = execCount
       /\ runAllIssued' = runAllIssued
       /\ listeners' = listeners
       /\ OneMoreSent
       /\ NewMsg.status \in { "success", "error" }

\* the listing of get_cells_info: cell i of the document is entry i, with
\* position i - 1
C24_Listing ==
    (/\ Handles
     /\ NewCmd.data.type = "get_cells_info"
     /\ NewMsg.status = "success")
    => /\ Len(NewMsg.cells) = Len(cells)
       /\ \A i \in 1..Len(cells) :
             /\ NewMsg.cells[i].id = cells[i].cell_id
             /\ NewMsg.cells[i].position = i - 1
             /\ NewMsg.cells[i].type = cells[i].cell_type
             /\ NewMsg.cells[i].content = cells[i].source

C24_Step == C24_Frame /\ C24_Listing

\* C24: get_cells_info, get_notebook_info, get_cell_text_output and
\* get_cell_image_output leave the document unchanged whether they succeed
\* or fail: cells (source, type, outputs, execution counter), selection and
\* unsaved-changes flag; get_cells_info lists every cell once, in document
\* order, with positions counted from 0.
C24_ReadOnly == [][C24_Step]_vars

\* C24 witness: after an insertion, get_cells_info listed the three cells of
\* a document with unsaved changes, which it left as they were.
C24_Witness ==
    /\ Len(cmds) = 2
    /\ cmds[2].data.type = "get_cells_info"
    /\ dirty
    /\ Len(cells) = 3
    /\ \E i \in ResponsesTo(2) :
          /\ sent[i].status = "success"
          /\ Len(sent[i].cells) = 3
          /\ sent[i].cells[3].position = 2

\* C25: the client never attempts to send on a connection that is not open:
\* after the connection closed, a one-shot completion listener of an
\* earlier insert_and_execute_cell or run_cell that fires does not send its
\* response, and nothing is sent before the connection opened.
C25_NoSendUnlessOpen ==
    /\ dropped = 0
    /\ wsState = "connecting" => sent = << >>

====
